---- MODULE Spec2Model ----
(***************************************************************************)
(* A model of SONAR's annotate/find_umis.py: the start-up code that        *)
(* compiles the IUPAC patterns, and main(), which reads the records of a   *)
(* fasta/fastq file (and of its R2 mate file with --pe), extracts and      *)
(* checks the cell barcode and the UMIs of each read, trims the read and   *)
(* files its id in umi_dict[cell][molecule][sequence].                     *)
(*                                                                         *)
(* Strings are sequences of one-character strings; a read id is a sequence *)
(* of tokens ("a", "/1", "/2", ";cell=", ";umi=" and bases), a prefix code,*)
(* so two ids are the same text exactly when they are the same sequence.   *)
(* An optional value is a sequence of length at most one: None is <<>>.    *)
(***************************************************************************)
EXTENDS Integers, Sequences, FiniteSets, TLC

\* ------------------------------------------------------------- bounds
MaxReads == 2     \* records of the file that the loop gets to
MinQ == 2         \* the --minQ of the runs; a base has quality MinQ - 1 or MinQ

None == <<>>
Some(x) == <<x>>

Min(a, b) == IF a < b THEN a ELSE b
Max(a, b) == IF a > b THEN a ELSE b

\* ------------------------------------------------------------- inputs
\* The ids of the records: plain, with the /1 and /2 of paired files, and one
\* that already ends in an annotation.
Ids == { <<"a">>, <<"a", "/1">>, <<"a", "/2">>, <<"a", ";cell=", "A">> }

\* The reads: empty, shorter than the regions, as long, and longer.
ReadSeqs ==
  { <<>>, <<"A">>, <<"C">>, <<"A", "C">>, <<"C", "A">>, <<"A", "C", "C">> }

MateSeqs == { <<>>, <<"C", "A">> }

\* The quality tracks of a fastq read of n bases: at most one base below minQ.
QualTracks(n) ==
  { [ i \in 1..n |-> IF i = k THEN MinQ - 1 ELSE MinQ ] : k \in 0..n }

\* The records SeqIO.parse can yield; a fasta record has no phred_quality.
FileRecords(format) ==
  UNION { { [ id |-> i, seq |-> s, qual |-> q ] :
              i \in Ids, q \in IF format = "fastq" THEN QualTracks(Len(s)) ELSE {<<>>} }
          : s \in ReadSeqs }

MateIds == { <<"a">>, <<"a", "/1">>, <<"a", "/2">> }

MateRecords ==
  { [ id |-> i, seq |-> s, qual |-> <<>> ] : i \in MateIds, s \in MateSeqs }

\* The command lines: the docopt dictionary of a run.
WhiteList == Some({ <<"A">> })

Args(cells, umis, r2umis, pes, revcomps, formats, lists, pats, upats, u2pats) ==
  [ cell : cells, umi : umis, r2umi : r2umis,
    pe : pes, revcomp : revcomps, FORMAT : formats, minQ : {MinQ},
    cellWhiteList : lists, cellPattern : pats,
    umiWhiteList : {None}, umiPattern : upats,
    umi2WhiteList : {None}, umi2Pattern : u2pats ]

\* Every shape of a single-end fasta run, fastq runs, and paired runs.
Arguments ==
  Args({ None, Some(<<0, 1>>), Some(<<0, 2>>) }, { None, Some(<<1, 2>>) },
       { None, Some(<<0, 1>>) }, {FALSE}, BOOLEAN, {"fasta"},
       { None, WhiteList }, { None, Some(<<"A">>), Some(<<".">>), Some(<<"X">>) },
       { None, Some(<<"A">>) }, { None, Some(<<"X">>) })
  \cup
  Args({ None, Some(<<0, 1>>) }, { None, Some(<<1, 2>>) }, {None}, {FALSE}, {FALSE},
       {"fastq"}, { None, WhiteList }, { None, Some(<<"A">>) }, {None}, {None})
  \cup
  Args({ None, Some(<<0, 1>>) }, {None}, {None}, {TRUE}, BOOLEAN, {"fasta"},
       {None}, {None}, {None}, {None})

\* Runs without whitelists and patterns: the regions, --pe and --revcomp.
PlainArguments ==
  Args({ None, Some(<<0, 1>>), Some(<<0, 2>>) }, { None, Some(<<1, 2>>) }, {None},
       {FALSE}, BOOLEAN, {"fasta"}, {None}, {None}, {None}, {None})
  \cup
  Args({ None, Some(<<0, 1>>) }, { None, Some(<<1, 2>>) }, {None}, {TRUE}, BOOLEAN,
       {"fasta"}, {None}, {None}, {None}, {None})

\* Runs in which reads are discarded: qualities, a whitelist, a pattern.
FilterArguments ==
  Args({ Some(<<0, 1>>) }, { None, Some(<<1, 2>>) }, {None}, {FALSE}, {FALSE},
       {"fastq"}, { None, WhiteList }, {None}, { None, Some(<<"A">>) }, {None})
  \cup
  Args({ None, Some(<<0, 2>>) }, { None, Some(<<1, 2>>) }, {None}, {FALSE}, {TRUE},
       {"fasta"}, { None, WhiteList }, { None, Some(<<"A">>) }, {None}, {None})
  \cup
  Args({ Some(<<0, 1>>) }, {None}, {None}, {TRUE}, {FALSE},
       {"fasta", "fastq"}, {WhiteList}, {None}, {None}, {None})

\* ------------------------------------------------------------- state
VARIABLES
  arguments,   \* the docopt dictionary, as given on the command line
  regex,       \* arguments['--cellPattern'], ['--umiPattern'], ['--umi2Pattern'] after start-up
  pc,          \* "startup", "main", "loop", "done" or "error"
  err,         \* the exception that ended the run
  cb, umi, umi2,   \* <<start, end>> of the three regions
  umi_dict, count, bad_umi, low_qual,
  iter,        \* the locals of the last iteration of the loop
  accepted,    \* the records filed so far, in order: input id, key and filed id
  r2Left       \* at the end: does the mate stream still hold records?

vars == << arguments, regex, pc, err, cb, umi, umi2, umi_dict, count, bad_umi,
           low_qual, iter, accepted, r2Left >>

cb_start == cb[1]
cb_end == cb[2]
umi_start == umi[1]
umi_end == umi[2]
umi2_start == umi2[1]
umi2_end == umi2[2]

\* ------------------------------------------------------------- start-up
iupac ==
  [ A |-> {"A"}, C |-> {"C"}, G |-> {"G"}, T |-> {"U", "T"}, U |-> {"U", "T"},
    M |-> {"A", "C"}, R |-> {"A", "G"}, W |-> {"A", "T"}, S |-> {"C", "G"},
    Y |-> {"C", "T"}, K |-> {"G", "T"}, V |-> {"A", "C", "G"},
    H |-> {"A", "C", "T"}, D |-> {"A", "G", "T"}, B |-> {"C", "G", "T"},
    N |-> {"A", "C", "G", "T", "U"} ]

\* The characters a value can hold: what "." matches.
AnyChar == {"A", "C", "G", "T", "U"}

\* \w: letters, digits and the underscore; "." is none of them.
IsWordChar(c) == c # "."

\* re.sub("\w", lambda x: iupac[x.group().upper()], p) raises KeyError on a
\* word character that is no IUPAC code and leaves the other characters alone.
RaisesKeyError(p) ==
  \E i \in 1..Len(p) : IsWordChar(p[i]) /\ p[i] \notin DOMAIN iupac

\* The regular expression, as the set of characters allowed at each position.
CompilePattern(p) ==
  [ i \in 1..Len(p) |-> IF IsWordChar(p[i]) THEN iupac[p[i]] ELSE AnyChar ]

\* The pattern of a field is compiled only when the field has no whitelist.
Compiles(wl, pat) == wl = None /\ pat # None

Startup ==
  /\ pc = "startup"
  /\ LET c == Compiles(arguments.cellWhiteList, arguments.cellPattern)
         u == Compiles(arguments.umiWhiteList, arguments.umiPattern)
         u2 == Compiles(arguments.umi2WhiteList, arguments.umi2Pattern)
     IN IF \/ c /\ RaisesKeyError(arguments.cellPattern[1])
           \/ u /\ RaisesKeyError(arguments.umiPattern[1])
           \/ u2 /\ RaisesKeyError(arguments.umi2Pattern[1])
        THEN /\ pc' = "error"
             /\ err' = "KeyError:iupac"
             /\ regex' = regex
        ELSE /\ pc' = "main"
             /\ err' = err
             /\ regex' =
                  [ cell |-> IF c THEN Some(CompilePattern(arguments.cellPattern[1])) ELSE None,
                    umi |-> IF u THEN Some(CompilePattern(arguments.umiPattern[1])) ELSE None,
                    umi2 |-> IF u2 THEN Some(CompilePattern(arguments.umi2Pattern[1])) ELSE None ]
  /\ UNCHANGED << arguments, cb, umi, umi2, umi_dict, count, bad_umi, low_qual,
                  iter, accepted, r2Left >>

\* main(), lines 52-79: the regions. With --r2umi given, line 62 reads
\* arguments['--umi2'], a key docopt never sets. (Line 73 nests double quotes
\* in an f-string, which Python parses from version 3.12 on; the runs of the
\* model are those of such an interpreter.)
MainStart ==
  /\ pc = "main"
  /\ IF arguments.r2umi # None
     THEN /\ pc' = "error"
          /\ err' = "KeyError:--umi2"
          /\ UNCHANGED << cb, umi, umi2 >>
     ELSE /\ pc' = "loop"
          /\ err' = err
          /\ cb' = IF arguments.cell # None THEN arguments.cell[1] ELSE <<0, 0>>
          /\ umi' = IF arguments.umi # None THEN arguments.umi[1] ELSE <<0, 0>>
          /\ umi2' = <<0, 0>>
  /\ UNCHANGED << arguments, regex, umi_dict, count, bad_umi, low_qual, iter,
                  accepted, r2Left >>

\* ------------------------------------------------------------- the loop
\* s[a:b] and s[a:] of Python, for offsets that are not negative.
Slice(s, a, b) ==
  LET hi == Min(b, Len(s)) IN IF a >= hi THEN <<>> ELSE SubSeq(s, a + 1, hi)

From(s, a) == Slice(s, a, Len(s))

\* s[:-k] for k > 0.
DropLast(s, k) == Slice(s, 0, Max(Len(s) - k, 0))

Reverse(s) == [ i \in 1..Len(s) |-> s[Len(s) + 1 - i] ]

Complement == [ A |-> "T", C |-> "G", G |-> "C", T |-> "A" ]

reverse_complement(s) == [ i \in 1..Len(s) |-> Complement[s[Len(s) + 1 - i]] ]

\* re.sub("/1$", "", id) and re.sub("/2$", "", id)
StripSuffix(id, suffix) ==
  IF Len(id) > 0 /\ id[Len(id)] = suffix THEN SubSeq(id, 1, Len(id) - 1) ELSE id

\* A comparison that forgets the suffixes.
IdMismatchRaw(seq, r2Seq) == seq.id # r2Seq.id

\* line 86: the test that sends the run to sys.exit
IdMismatch(seq, r2Seq) == StripSuffix(seq.id, "/1") # StripSuffix(r2Seq.id, "/2")

\* any([ x < arguments['--minQ'] for x in q ])
AnyLow(q) == \E i \in 1..Len(q) : q[i] < arguments.minQ

\* re.match: the expression matches at the start of the value.
re_match(rx, v) ==
  /\ Len(v) >= Len(rx)
  /\ \A i \in 1..Len(rx) : v[i] \in rx[i]

\* lines 96-107
CheckCell(seq, cell_barcode) ==
  IF cell_barcode = <<>> THEN "ok"
  ELSE IF arguments.FORMAT = "fastq" /\ AnyLow(Slice(seq.qual, cb_start, cb_end))
    THEN "low_qual"
  ELSE IF arguments.cellWhiteList # None
    THEN IF cell_barcode \in arguments.cellWhiteList[1] THEN "ok" ELSE "bad_umi"
  ELSE IF arguments.cellPattern # None
    THEN IF re_match(regex.cell[1], cell_barcode) THEN "ok" ELSE "bad_umi"
  ELSE "ok"

\* lines 109-120
CheckFwd(seq, fwd_id) ==
  IF fwd_id = <<>> THEN "ok"
  ELSE IF arguments.FORMAT = "fastq" /\ AnyLow(Slice(seq.qual, umi_start, umi_end))
    THEN "low_qual"
  ELSE IF arguments.umiWhiteList # None
    THEN IF fwd_id \in arguments.umiWhiteList[1] THEN "ok" ELSE "bad_umi"
  ELSE IF arguments.umiPattern # None
    THEN IF re_match(regex.umi[1], fwd_id) THEN "ok" ELSE "bad_umi"
  ELSE "ok"

\* lines 122-133; line 130 reads arguments['umi2--Pattern'], a key that is never set.
CheckRev(seq, rev_id) ==
  IF rev_id = <<>> THEN "ok"
  ELSE IF arguments.FORMAT = "fastq" /\ AnyLow(Slice(Reverse(seq.qual), umi2_start, umi2_end))
    THEN "low_qual"
  ELSE IF arguments.umi2WhiteList # None
    THEN IF rev_id \in arguments.umi2WhiteList[1] THEN "ok" ELSE "bad_umi"
  ELSE "KeyError:umi2--Pattern"

\* The first check that fails ends the iteration.
Verdict(seq, cell_barcode, fwd_id, rev_id) ==
  IF CheckCell(seq, cell_barcode) # "ok" THEN CheckCell(seq, cell_barcode)
  ELSE IF CheckFwd(seq, fwd_id) # "ok" THEN CheckFwd(seq, fwd_id)
  ELSE CheckRev(seq, rev_id)

\* lines 137-139
Trimmed(s) ==
  LET t == From(s, Max(cb_end, umi_end))
  IN IF umi2_end > 0 THEN DropLast(t, umi2_end) ELSE t

\* `if` in place of the `elif` of line 142: the mate is reverse-complemented too.
PayloadRevcompAlso(seq, r2Seq) ==
  LET s == IF arguments.pe THEN r2Seq[1].seq ELSE Trimmed(seq.seq)
  IN [ id |-> IF arguments.pe THEN r2Seq[1].id ELSE seq.id,
       seq |-> IF arguments.revcomp THEN reverse_complement(s) ELSE s ]

\* lines 137-143: the record whose sequence and id are filed
Payload(seq, r2Seq) ==
  IF arguments.pe THEN [ id |-> r2Seq[1].id, seq |-> r2Seq[1].seq ]
  ELSE IF arguments.revcomp
    THEN [ id |-> seq.id, seq |-> reverse_complement(Trimmed(seq.seq)) ]
  ELSE [ id |-> seq.id, seq |-> Trimmed(seq.seq) ]

\* The test of line 145 the wrong way round.
CellKeyInverted(cell_barcode, molecule_id) ==
  IF cell_barcode = <<>> THEN cell_barcode ELSE molecule_id

\* lines 145-155: the two keys, and the id with its annotations
CellKey(cell_barcode, molecule_id) ==
  IF cell_barcode # <<>> THEN cell_barcode ELSE molecule_id

MoleculeKey(cell_key, molecule_id) ==
  IF molecule_id # <<>> THEN molecule_id ELSE cell_key

Annotate(id, cell_barcode, molecule_id) ==
  id \o (IF cell_barcode # <<>> THEN <<";cell=">> \o cell_barcode ELSE <<>>)
     \o (IF molecule_id # <<>> THEN <<";umi=">> \o molecule_id ELSE <<>>)

\* Line 161 without the test of line 160: the list is started anew each time.
InsertOverwrite(d, c, m, s, id) ==
  LET mols == IF c \in DOMAIN d THEN d[c] ELSE <<>>
      seqs == IF m \in DOMAIN mols THEN mols[m] ELSE <<>>
      seqs2 == IF s \in DOMAIN seqs
               THEN [ seqs EXCEPT ![s] = <<id>> ]
               ELSE seqs @@ (s :> <<id>>)
      mols2 == IF m \in DOMAIN mols
               THEN [ mols EXCEPT ![m] = seqs2 ]
               ELSE mols @@ (m :> seqs2)
  IN IF c \in DOMAIN d THEN [ d EXCEPT ![c] = mols2 ] ELSE d @@ (c :> mols2)

\* lines 157-163
Insert(d, c, m, s, id) ==
  LET d1 == IF c \in DOMAIN d THEN d ELSE d @@ (c :> <<>>)
      mols == d1[c]
      seqs == IF m \in DOMAIN mols THEN mols[m] ELSE <<>>
      seqs2 == IF s \in DOMAIN seqs
               THEN [ seqs EXCEPT ![s] = Append(@, id) ]
               ELSE seqs @@ (s :> <<id>>)
      mols2 == IF m \in DOMAIN mols
               THEN [ mols EXCEPT ![m] = seqs2 ]
               ELSE mols @@ (m :> seqs2)
  IN [ d1 EXCEPT ![c] = mols2 ]

\* A discarded read that is filed all the same: a `continue` is missing.
FiledAlways(d, verdict, c, m, s, id) == Insert(d, c, m, s, id)

\* `continue` leaves the dictionary alone.
Filed(d, verdict, c, m, s, id) ==
  IF verdict = "ok" THEN Insert(d, c, m, s, id) ELSE d

Bump(counter, verdict, which) ==
  IF verdict = which THEN counter + 1 ELSE counter

\* One iteration of the loop of lines 82-163 on the record `seq` of the file
\* and, with --pe, the record that next(r2Parser) returned.
Iterate(seq, r2Seq) ==
  IF arguments.pe /\ IdMismatch(seq, r2Seq[1])
  THEN \* line 87: the message names tempseq, which is not defined: the run
       \* ends with a NameError in place of the SystemExit. It ends either way.
       /\ pc' = "error"
       /\ err' = "NameError:tempseq"
       /\ iter' = [ seq |-> Some(seq), r2Seq |-> r2Seq, verdict |-> "mismatch",
                    cell_barcode |-> <<>>, molecule_id |-> <<>>, out |-> None ]
       /\ UNCHANGED << umi_dict, count, bad_umi, low_qual, accepted >>
  ELSE LET cell_barcode == Slice(seq.seq, cb_start, cb_end)
           fwd_id == Slice(seq.seq, umi_start, umi_end)
           rev_id == Slice(reverse_complement(seq.seq), umi2_start, umi2_end)
           verdict == Verdict(seq, cell_barcode, fwd_id, rev_id)
           molecule_id == fwd_id \o rev_id
           out == Payload(seq, r2Seq)
           cell_key == CellKey(cell_barcode, molecule_id)
           molecule_key == MoleculeKey(cell_key, molecule_id)
           id == Annotate(out.id, cell_barcode, molecule_id)
       IN /\ count' = count + 1
          /\ low_qual' = Bump(low_qual, verdict, "low_qual")
          /\ bad_umi' = Bump(bad_umi, verdict, "bad_umi")
          /\ umi_dict' = Filed(umi_dict, verdict, cell_key, molecule_key, out.seq, id)
          /\ accepted' =
               IF verdict = "ok"
               THEN Append(accepted, [ src |-> out.id, id |-> id,
                                       key |-> << cell_key, molecule_key, out.seq >> ])
               ELSE accepted
          /\ iter' = IF verdict = "ok"
                     THEN [ seq |-> Some(seq), r2Seq |-> r2Seq, verdict |-> verdict,
                            cell_barcode |-> cell_key, molecule_id |-> molecule_key,
                            out |-> Some([ id |-> id, seq |-> out.seq ]) ]
                     ELSE [ seq |-> Some(seq), r2Seq |-> r2Seq, verdict |-> verdict,
                            cell_barcode |-> cell_barcode, molecule_id |-> <<>>,
                            out |-> None ]
          /\ IF verdict = "KeyError:umi2--Pattern"
             THEN pc' = "error" /\ err' = verdict
             ELSE pc' = pc /\ err' = err

\* next(r2Parser), line 85: the next record of the mate file, or StopIteration
\* (None) when the mate file has no record left.
ReadRecord ==
  /\ pc = "loop"
  /\ count < MaxReads
  /\ \E seq \in FileRecords(arguments.FORMAT) :
       IF arguments.pe
       THEN \E r2Seq \in {None} \cup { Some(m) : m \in MateRecords } :
              IF r2Seq = None
              THEN /\ pc' = "error"
                   /\ err' = "StopIteration"
                   /\ iter' = [ seq |-> Some(seq), r2Seq |-> None,
                                verdict |-> "StopIteration", cell_barcode |-> <<>>,
                                molecule_id |-> <<>>, out |-> None ]
                   /\ UNCHANGED << umi_dict, count, bad_umi, low_qual, accepted >>
              ELSE Iterate(seq, r2Seq)
       ELSE Iterate(seq, None)
  /\ UNCHANGED << arguments, regex, cb, umi, umi2, r2Left >>

\* lines 165-168: the file is at its end; the counts are printed and the
\* dictionary is pickled. Nothing looks at the mate stream.
Finish ==
  /\ pc = "loop"
  /\ pc' = "done"
  /\ r2Left' \in IF arguments.pe THEN BOOLEAN ELSE {FALSE}
  /\ UNCHANGED << arguments, regex, err, cb, umi, umi2, umi_dict, count, bad_umi,
                  low_qual, iter, accepted >>

NoIter ==
  [ seq |-> None, r2Seq |-> None, verdict |-> "none",
    cell_barcode |-> <<>>, molecule_id |-> <<>>, out |-> None ]

StartWith(args) ==
  /\ arguments \in args
  /\ regex = [ cell |-> None, umi |-> None, umi2 |-> None ]
  /\ pc = "startup"
  /\ err = "none"
  /\ cb = <<0, 0>>
  /\ umi = <<0, 0>>
  /\ umi2 = <<0, 0>>
  /\ umi_dict = <<>>
  /\ count = 0
  /\ bad_umi = 0
  /\ low_qual = 0
  /\ iter = NoIter
  /\ accepted = <<>>
  /\ r2Left = FALSE

Init == StartWith(Arguments)

Next == Startup \/ MainStart \/ ReadRecord \/ Finish

Spec == Init /\ [][Next]_vars

InitPlain == StartWith(PlainArguments)

SpecPlain == InitPlain /\ [][Next]_vars

InitFilter == StartWith(FilterArguments)

SpecFilter == InitFilter /\ [][Next]_vars

\* ------------------------------------------------------------- the store, read back
\* The buckets of the dictionary, the list of a bucket, and the places of the ids.
Buckets(d) ==
  UNION { UNION { { << c, m, s >> : s \in DOMAIN d[c][m] } : m \in DOMAIN d[c] }
          : c \in DOMAIN d }

ListOf(d, b) == IF b \in Buckets(d) THEN d[b[1]][b[2]][b[3]] ELSE <<>>

Places(d) == UNION { { << b, i >> : i \in 1..Len(ListOf(d, b)) } : b \in Buckets(d) }

IdAt(d, p) == ListOf(d, p[1])[p[2]]

\* The region a command line asks for, and what a read holds there.
RegionOf(option) == IF option = None THEN <<0, 0>> ELSE option[1]

Held(s, option) == Slice(s, RegionOf(option)[1], RegionOf(option)[2])

Processed == iter.verdict \in {"ok", "low_qual", "bad_umi"}

\* ------------------------------------------------------------- C1
\* C1: the ids filed in umi_dict, the reads of low quality and the reads with an
\* illegal barcode or UMI add up to the reads counted, after every read and at
\* the end of the file.
C1_Conservation ==
  Cardinality(Places(umi_dict)) + low_qual + bad_umi = count

C1_Witness ==
  /\ pc = "done"
  /\ count = MaxReads
  /\ low_qual + bad_umi >= 1
  /\ Cardinality(Places(umi_dict)) >= 1

\* ------------------------------------------------------------- C2
\* C2, as claimed: no id is filed under an empty cell key and an empty
\* molecule key.
C2_NeverBothEmpty ==
  \A b \in Buckets(umi_dict) : ~(b[1] = <<>> /\ b[2] = <<>>)

\* C2, amended: a read that was filed was filed under the final values of
\* cell_barcode and molecule_id, and these are both empty exactly when the
\* read holds nothing in the cell, UMI and reverse-UMI regions (no region was
\* asked for, or the read is shorter than the offsets).
C2_EmptyOnlyWithoutBarcodes ==
  iter.verdict = "ok" =>
    LET s == iter.seq[1].seq
        b == << iter.cell_barcode, iter.molecule_id, iter.out[1].seq >>
        list == ListOf(umi_dict, b)
        nothing == /\ Held(s, arguments.cell) = <<>>
                   /\ Held(s, arguments.umi) = <<>>
                   /\ Held(reverse_complement(s), arguments.r2umi) = <<>>
    IN /\ Len(list) > 0
       /\ list[Len(list)] = iter.out[1].id
       /\ (iter.cell_barcode = <<>> /\ iter.molecule_id = <<>>) <=> nothing

C2_Witness ==
  /\ iter.verdict = "ok"
  /\ Held(iter.seq[1].seq, arguments.cell) = <<>>
  /\ Held(iter.seq[1].seq, arguments.umi) # <<>>
  /\ iter.cell_barcode = iter.molecule_id
  /\ iter.cell_barcode # <<>>

\* ------------------------------------------------------------- C3
\* C3: a fastq read with a base below minQ in the window of a region it holds
\* something in is counted as of low quality, not as illegal, and is not filed.
LowInWindow(rec) ==
  \/ /\ Held(rec.seq, arguments.cell) # <<>>
     /\ \E i \in 1..Len(Held(rec.qual, arguments.cell)) :
          Held(rec.qual, arguments.cell)[i] < arguments.minQ
  \/ /\ Held(rec.seq, arguments.umi) # <<>>
     /\ \E i \in 1..Len(Held(rec.qual, arguments.umi)) :
          Held(rec.qual, arguments.umi)[i] < arguments.minQ
  \/ /\ Held(reverse_complement(rec.seq), arguments.r2umi) # <<>>
     /\ \E i \in 1..Len(Held(Reverse(rec.qual), arguments.r2umi)) :
          Held(Reverse(rec.qual), arguments.r2umi)[i] < arguments.minQ

C3_LowQualityWins ==
  (arguments.FORMAT = "fastq" /\ Processed /\ LowInWindow(iter.seq[1])) =>
    /\ iter.verdict = "low_qual"
    /\ count = 1 => (low_qual = 1 /\ bad_umi = 0 /\ umi_dict = <<>>)

\* ------------------------------------------------------------- C4
\* C4: with a pattern and no whitelist, a value is accepted exactly when the
\* whole value matches the pattern, position by position.
FullMatch(rx, v) ==
  /\ Len(v) = Len(rx)
  /\ \A i \in 1..Len(rx) : v[i] \in rx[i]

C4_FullStringMatch ==
  /\ ( /\ Processed
       /\ arguments.cellWhiteList = None
       /\ arguments.cellPattern # None
       /\ Held(iter.seq[1].seq, arguments.cell) # <<>>
       /\ CheckCell(iter.seq[1], Held(iter.seq[1].seq, arguments.cell)) # "low_qual" )
     => LET full == FullMatch(regex.cell[1], Held(iter.seq[1].seq, arguments.cell))
        IN /\ full <=> CheckCell(iter.seq[1], Held(iter.seq[1].seq, arguments.cell)) = "ok"
           /\ ~full => iter.verdict = "bad_umi"
  /\ ( /\ iter.verdict = "ok"
       /\ arguments.umiWhiteList = None
       /\ arguments.umiPattern # None
       /\ Held(iter.seq[1].seq, arguments.umi) # <<>> )
     => FullMatch(regex.umi[1], Held(iter.seq[1].seq, arguments.umi))

\* ------------------------------------------------------------- C5
\* re.sub("/[12]$", "", id)
StripEither(id) ==
  IF Len(id) > 0 /\ id[Len(id)] \in {"/1", "/2"} THEN SubSeq(id, 1, Len(id) - 1) ELSE id

\* C5, as claimed: a pair is taken as one read exactly when the two ids are the
\* same once a trailing /1 or /2 is taken off each; any other pair ends the run.
C5_SuffixInsensitive ==
  (arguments.pe /\ iter.seq # None /\ iter.r2Seq # None) =>
    IF StripEither(iter.seq[1].id) = StripEither(iter.r2Seq[1].id)
    THEN Processed
    ELSE iter.verdict = "mismatch" /\ pc = "error"

\* C5, amended: a pair is taken as one read exactly when the id of the record
\* of the file without a trailing /1 is the id of the mate without a trailing
\* /2; any other pair ends the run.
C5_OwnSuffixOnly ==
  (arguments.pe /\ iter.seq # None /\ iter.r2Seq # None) =>
    IF StripSuffix(iter.seq[1].id, "/1") = StripSuffix(iter.r2Seq[1].id, "/2")
    THEN Processed
    ELSE iter.verdict = "mismatch" /\ pc = "error"

C5_Witness ==
  /\ arguments.pe
  /\ iter.verdict = "ok"
  /\ iter.seq[1].id = <<"a", "/1">>
  /\ iter.r2Seq[1].id = <<"a", "/2">>

\* ------------------------------------------------------------- C6
\* C6: a paired run that ends well has read as many mates as records: the mate
\* file holds no record the run did not read.
C6_SameLength ==
  (arguments.pe /\ pc = "done") => ~r2Left

\* ------------------------------------------------------------- C7
\* Every list of the dictionary is the ids of the records filed under its key,
\* in the order in which they were read, and nothing else is in the dictionary.
ListsAreTheRecordsInOrder ==
  /\ Buckets(umi_dict) = { accepted[i].key : i \in 1..Len(accepted) }
  /\ \A b \in Buckets(umi_dict) :
       LET mine == SelectSeq(accepted, LAMBDA e : e.key = b)
       IN ListOf(umi_dict, b) = [ i \in 1..Len(mine) |-> mine[i].id ]
  /\ \A c \in DOMAIN umi_dict : DOMAIN umi_dict[c] # {}
  /\ \A c \in DOMAIN umi_dict : \A m \in DOMAIN umi_dict[c] : DOMAIN umi_dict[c][m] # {}

DistinctInputIds ==
  \A i, j \in 1..Len(accepted) : i # j => accepted[i].src # accepted[j].src

EachIdOnce ==
  \A p, q \in Places(umi_dict) : p # q => IdAt(umi_dict, p) # IdAt(umi_dict, q)

NoAnnotationInInputIds ==
  \A i \in 1..Len(accepted) : \A k \in 1..Len(accepted[i].src) :
    accepted[i].src[k] \notin { ";cell=", ";umi=" }

\* C7, as claimed: the dictionary only grows, by one id at the end of one list
\* for each read filed; and with input ids that differ, no id is filed twice.
C7_GrowthAndUniqueIds ==
  /\ ListsAreTheRecordsInOrder
  /\ DistinctInputIds => EachIdOnce

\* C7, amended: the same, for input ids that differ and hold neither ";cell="
\* nor ";umi=".
C7_GrowthAndUniquePlainIds ==
  /\ ListsAreTheRecordsInOrder
  /\ (DistinctInputIds /\ NoAnnotationInInputIds) => EachIdOnce

C7_Witness ==
  /\ DistinctInputIds
  /\ NoAnnotationInInputIds
  /\ \E b \in Buckets(umi_dict) : Len(ListOf(umi_dict, b)) = 2

\* ------------------------------------------------------------- C8
NotIupac(option) ==
  option # None /\ \E i \in 1..Len(option[1]) : option[1][i] \notin DOMAIN iupac

\* C8: with a character that is no IUPAC code in a pattern, the run ends with
\* an error at start-up: no read is counted, nothing is filed and the run does
\* not end well.
C8_RejectsNonIupac ==
  ( \/ NotIupac(arguments.cellPattern)
    \/ NotIupac(arguments.umiPattern)
    \/ NotIupac(arguments.umi2Pattern) )
  => /\ pc # "done"
     /\ count = 0
     /\ umi_dict = <<>>

\* ------------------------------------------------------------- C9
\* C9: with --r2umi start,end the run gets to the reads, the reverse UMI of a
\* read is [start:end] of its reverse complement, and a read is filed under
\* the forward UMI followed by the reverse UMI.
C9_ReverseUmi ==
  (arguments.r2umi # None /\ arguments.r2umi[1][2] > arguments.r2umi[1][1]) =>
    /\ err # "KeyError:--umi2"
    /\ pc \in {"loop", "done"} => umi2 = arguments.r2umi[1]
    /\ iter.verdict = "ok" =>
         LET s == iter.seq[1].seq
             molecule == Held(s, arguments.umi) \o
                         Held(reverse_complement(s), arguments.r2umi)
         IN molecule # <<>> => iter.molecule_id = molecule

\* ------------------------------------------------------------- C10
\* C10: a read is filed under the whole sequence of its mate with --pe,
\* whatever --revcomp says; without --pe under its own sequence from the later
\* of the two ends on (less the bases of the reverse UMI), reverse-complemented
\* exactly when --revcomp is given.
C10_Payload ==
  iter.verdict = "ok" =>
    LET s == iter.seq[1].seq
        from == Max(RegionOf(arguments.cell)[2], RegionOf(arguments.umi)[2])
        rest == From(s, from)
        kept == IF arguments.r2umi # None
                THEN DropLast(rest, RegionOf(arguments.r2umi)[2])
                ELSE rest
        filed == iter.out[1].seq
    IN /\ << iter.cell_barcode, iter.molecule_id, filed >> \in Buckets(umi_dict)
       /\ IF arguments.pe THEN filed = iter.r2Seq[1].seq
          ELSE IF arguments.revcomp THEN filed = reverse_complement(kept)
          ELSE filed = kept

C10_Witness ==
  /\ iter.verdict = "ok"
  /\ ~arguments.pe
  /\ arguments.revcomp
  /\ arguments.cell # None
  /\ Len(iter.out[1].seq) = 2
  /\ iter.out[1].seq # iter.seq[1].seq
====
